---- MODULE Spec2Model ----
(***************************************************************************)
(* Model of api/v1/views/places_reviews.py: the five request handlers of   *)
(* the Review resource over the storage collaborator.                      *)
(*                                                                         *)
(* A Review object is a mapping from attribute names to values.  The store *)
(* is a mapping from review ids to Review objects.  Places and users are   *)
(* fixed (they are never removed by this module).  A request body is a     *)
(* record [kind, data]: kind "invalid" is a body that does not parse,      *)
(* "null" is the JSON literal null, "array" stands for any JSON value that *)
(* is neither null nor an object, "object" is a JSON object whose members  *)
(* are data.                                                               *)
(***************************************************************************)
EXTENDS Naturals, Sequences, FiniteSets, TLC

\* ------------------------------------------------------------------ bounds
MaxReviews == 2
MaxConcReviews == 1

\* ------------------------------------------------------- the fixed entities
PlaceIds == {"p1", "p2"}
UserIds == {"u1"}
PathPlaceIds == PlaceIds \cup {"p9"}

AllReviewIds == <<"r1", "r2", "r3", "r4", "r5", "r6">>
AllTimes == <<"t0", "t1", "t2", "t3", "t4", "t5">>

ReviewId(n) == AllReviewIds[n]
\* datetime.utcnow(): a strictly increasing reading, one per object constructed
utcnow(n) == AllTimes[n + 1]

PathReviewIds == {ReviewId(n) : n \in 1..MaxReviews} \cup {"r0"}

\* ------------------------------------------------------------ request bodies
EmptyObj == [k \in {} |-> ""]

\* bodies that are not JSON objects
NonObjectBodies == { [kind |-> c, data |-> EmptyObj] : c \in {"invalid", "null", "array"} }

ObjectBody(d) == [kind |-> "object", data |-> d]

\* the value a body carries for a key other than user_id
BodyVal(k) ==
    CASE k = "place_id" -> "p2"
      [] k = "text" -> "great"
      [] k = "rating" -> "5"
      [] OTHER -> "ignored"

\* the body of a request that carries none
NoBody == [kind |-> "none", data |-> EmptyObj]

\* bodies of POST: user_id absent, naming a User, or naming none; text absent
\* or present; and attempts on the attributes the server assigns
CreateKeySets == {{}, {"place_id"}, {"id", "created_at", "updated_at", "place_id"}}

CreateBodies ==
    NonObjectBodies \cup
    { ObjectBody([k \in S \cup U \cup T |-> IF k = "user_id" THEN u ELSE BodyVal(k)]) :
        S \in CreateKeySets, U \in {{}, {"user_id"}}, u \in {"u1", "ignored"},
        T \in {{}, {"text"}} }

\* bodies of PUT: any of text and an attribute the Review class does not
\* declare, and attempts on the protected attributes
PutKeySets == {{}, {"id", "place_id"}, {"created_at", "updated_at", "user_id"}}

PutBodies ==
    NonObjectBodies \cup
    { ObjectBody([k \in S \cup T \cup R |-> IF k = "text" THEN "updated" ELSE BodyVal(k)]) :
        S \in PutKeySets, T \in {{}, {"text"}}, R \in {{}, {"rating"}} }

\* ------------------------------------------------------------ collaborators
None == [none |-> "None"]

\* request.get_json(silent=True): None when the body does not parse, and
\* None for the JSON literal null
get_json(body) == IF body.kind \in {"invalid", "null"} THEN None ELSE body

storage_get_Place(id) == IF id \in PlaceIds THEN [id |-> id] ELSE None
storage_get_User(id) == IF id \in UserIds THEN [id |-> id] ELSE None
storage_get_Review(store, id) == IF id \in DOMAIN store THEN store[id] ELSE None

\* entity.save(): create-or-update of the object under its id
storage_save(store, obj) == (obj["id"] :> obj) @@ store

storage_delete(store, obj) == [r \in DOMAIN store \ {obj["id"]} |-> store[r]]

\* Review(**kwargs): the attributes given, with server-assigned id and timestamps
Review(kwargs, freshId, now) ==
    [k \in DOMAIN kwargs \cup {"id", "created_at", "updated_at"} |->
        IF k = "id" THEN freshId
        ELSE IF k \in {"created_at", "updated_at"} THEN now
        ELSE kwargs[k]]

to_json(obj) == [k \in DOMAIN obj |-> obj[k]]

RECURSIVE place_reviews_upto(_, _, _)
place_reviews_upto(store, place_id, n) ==
    IF n = 0 THEN <<>>
    ELSE LET rest == place_reviews_upto(store, place_id, n - 1)
             id == ReviewId(n)
         IN IF id \in DOMAIN store /\ store[id]["place_id"] = place_id
            THEN Append(rest, store[id])
            ELSE rest

\* place.reviews: the stored reviews of the place, in creation order
place_reviews(store, place_id, n) == place_reviews_upto(store, place_id, n)

\* -------------------------------------------------------------------- state
\* reviews     the Review objects of the store, by id
\* nextId      the number of Review objects constructed so far
\* last        the request being answered and its response, until it is sent
\* deleted     history: the ids whose DELETE was answered 200
\* created     history: the body of the 201 response of each id
\* mutated     history: the ids a PUT or a DELETE was answered 200 for
\* putReq      the PUT in flight of the interleaved specification
\* delReq      the DELETE in flight of the interleaved specification
VARIABLES reviews, nextId, last, deleted, created, mutated, putReq, delReq

vars == <<reviews, nextId, last, deleted, created, mutated, putReq, delReq>>

Response(op, arg, body, status, msg, json) ==
    [op |-> op, arg |-> arg, body |-> body, status |-> status, msg |-> msg, json |-> json]

\* abort(status, msg)
Abort(op, arg, body, status, msg) == Response(op, arg, body, status, msg, <<>>)

\* an exception no handler catches
Fault(op, arg, body) == Response(op, arg, body, 500, "Internal Server Error", <<>>)

NoRequest == Response("none", "", NoBody, 0, "", <<>>)

IdleReq == [pc |-> "idle", id |-> "", obj |-> None, status |-> 0, stale |-> FALSE]

Init ==
    /\ reviews = EmptyObj
    /\ nextId = 0
    /\ last = NoRequest
    /\ deleted = {}
    /\ created = EmptyObj
    /\ mutated = {}
    /\ putReq = IdleReq
    /\ delReq = IdleReq

\* ----------------------------------------------------------------- handlers
\* GET /places/<place_id>/reviews
reviews_by_place_abort_missing(place_id) == Fault("list", place_id, NoBody)

\* lines 26-27
reviews_by_place_abort(place_id) == Abort("list", place_id, NoBody, 404, "")

reviews_by_place_response(store, place_id, n) ==
    LET place_obj == storage_get_Place(place_id)
    IN IF place_obj = None
       THEN reviews_by_place_abort(place_id)
       ELSE LET objs == place_reviews(store, place_id, n)
            IN Response("list", place_id, NoBody, 200, "",
                        [i \in 1..Len(objs) |-> to_json(objs[i])])

reviews_by_place(place_id) ==
    /\ last = NoRequest
    /\ last' = reviews_by_place_response(reviews, place_id, nextId)
    /\ UNCHANGED <<reviews, nextId, deleted, created, mutated, putReq, delReq>>

\* POST /places/<place_id>/reviews
review_create_checks_placeFirst(place_id, body) ==
    LET review_json == get_json(body)
    IN IF storage_get_Place(place_id) = None
       THEN Abort("create", place_id, body, 404, "")
       ELSE IF review_json = None
            THEN Abort("create", place_id, body, 400, "Not a JSON")
       ELSE IF review_json.kind # "object" THEN Fault("create", place_id, body)
       ELSE IF "user_id" \notin DOMAIN review_json.data
            THEN Fault("create", place_id, body)
       ELSE IF storage_get_User(review_json.data["user_id"]) = None
            THEN Abort("create", place_id, body, 404, "")
       ELSE IF "text" \notin DOMAIN review_json.data
            THEN Abort("create", place_id, body, 400, "Missing text")
       ELSE Response("create", place_id, body, 201, "", <<>>)

review_create_checks_userFirst(place_id, body) ==
    LET review_json == get_json(body)
    IN IF review_json = None
       THEN Abort("create", place_id, body, 400, "Not a JSON")
       ELSE IF review_json.kind # "object" THEN Fault("create", place_id, body)
       ELSE IF "user_id" \notin DOMAIN review_json.data
            THEN Fault("create", place_id, body)
       ELSE IF storage_get_User(review_json.data["user_id"]) = None
            THEN Abort("create", place_id, body, 404, "")
       ELSE IF storage_get_Place(place_id) = None
            THEN Abort("create", place_id, body, 404, "")
       ELSE IF "text" \notin DOMAIN review_json.data
            THEN Abort("create", place_id, body, 400, "Missing text")
       ELSE Response("create", place_id, body, 201, "", <<>>)

review_create_checks_noText(place_id, body) ==
    LET review_json == get_json(body)
    IN IF review_json = None
       THEN Abort("create", place_id, body, 400, "Not a JSON")
       ELSE IF storage_get_Place(place_id) = None
            THEN Abort("create", place_id, body, 404, "")
       ELSE IF review_json.kind # "object" THEN Fault("create", place_id, body)
       ELSE IF "user_id" \notin DOMAIN review_json.data
            THEN Fault("create", place_id, body)
       ELSE IF storage_get_User(review_json.data["user_id"]) = None
            THEN Abort("create", place_id, body, 404, "")
       ELSE Response("create", place_id, body, 201, "", <<>>)

\* the checks of lines 46-56, in order.  review_json["user_id"] (line 51)
\* raises TypeError when review_json is not a mapping and KeyError when it
\* is a mapping without that key; the test of line 53 comes after it.
review_create_checks(place_id, body) ==
    LET review_json == get_json(body)
    IN IF review_json = None
       THEN Abort("create", place_id, body, 400, "Not a JSON")
       ELSE IF storage_get_Place(place_id) = None
            THEN Abort("create", place_id, body, 404, "")
       ELSE IF review_json.kind # "object" THEN Fault("create", place_id, body)
       ELSE IF "user_id" \notin DOMAIN review_json.data
            THEN Fault("create", place_id, body)
       ELSE IF storage_get_User(review_json.data["user_id"]) = None
            THEN Abort("create", place_id, body, 404, "")
       ELSE IF "user_id" \notin DOMAIN review_json.data
            THEN Abort("create", place_id, body, 400, "Missing user_id")
       ELSE IF "text" \notin DOMAIN review_json.data
            THEN Abort("create", place_id, body, 400, "Missing text")
       ELSE Response("create", place_id, body, 201, "", <<>>)

review_create_kwargs_bodyWins(place_id, data) == data @@ ("place_id" :> place_id)

\* line 58: review_json["place_id"] = place_id
review_create_kwargs(place_id, data) == ("place_id" :> place_id) @@ data

\* line 60: the Review the handler constructs
review_create_new(place_id, body, n) ==
    Review(review_create_kwargs(place_id, body.data), ReviewId(n + 1), utcnow(n))

\* lines 62-65, and the aborts before them
review_create_response(place_id, body, n) ==
    LET out == review_create_checks(place_id, body)
    IN IF out.status # 201
       THEN out
       ELSE [out EXCEPT !.json = <<to_json(review_create_new(place_id, body, n))>>]

\* lines 58-61, for a store that constructs at most bound reviews
review_create_store(place_id, body, bound) ==
    IF review_create_checks(place_id, body).status # 201
    THEN UNCHANGED <<reviews, nextId, deleted, created, mutated>>
    ELSE /\ nextId < bound
         /\ LET new_review == review_create_new(place_id, body, nextId)
            IN /\ reviews' = storage_save(reviews, new_review)
               /\ nextId' = nextId + 1
               /\ created' = (new_review["id"] :> to_json(new_review)) @@ created
               /\ UNCHANGED <<deleted, mutated>>

review_create(place_id, body) ==
    /\ last = NoRequest
    /\ review_create_store(place_id, body, MaxReviews)
    /\ last' = review_create_response(place_id, body, nextId)
    /\ UNCHANGED <<putReq, delReq>>

\* GET /reviews/<review_id>
review_by_id_response_wrongType(store, review_id) ==
    LET fetched_obj == storage_get_Place(review_id)
    IN IF fetched_obj = None
       THEN Abort("get", review_id, NoBody, 404, "")
       ELSE Response("get", review_id, NoBody, 200, "", <<to_json(fetched_obj)>>)

review_by_id_response(store, review_id) ==
    LET fetched_obj == storage_get_Review(store, review_id)
    IN IF fetched_obj = None
       THEN Abort("get", review_id, NoBody, 404, "")
       ELSE Response("get", review_id, NoBody, 200, "", <<to_json(fetched_obj)>>)

review_by_id(review_id) ==
    /\ last = NoRequest
    /\ last' = review_by_id_response(reviews, review_id)
    /\ UNCHANGED <<reviews, nextId, deleted, created, mutated, putReq, delReq>>

\* PUT /reviews/<review_id>
ProtectedKeys_noPlace == {"id", "created_at", "updated_at", "user_id"}

\* lines 111-112
ProtectedKeys == {"id", "created_at", "updated_at", "user_id", "place_id"}

\* lines 110-113: the setattr loop
review_put_merge(fetched_obj, data) ==
    [k \in DOMAIN fetched_obj \cup (DOMAIN data \ ProtectedKeys) |->
        IF k \in DOMAIN data \ ProtectedKeys THEN data[k] ELSE fetched_obj[k]]

\* lines 100-110: place_json.items() raises AttributeError when place_json
\* is not a mapping
review_put_checks(store, review_id, body) ==
    LET place_json == get_json(body)
    IN IF place_json = None
       THEN Abort("put", review_id, body, 400, "Not a JSON")
       ELSE IF storage_get_Review(store, review_id) = None
            THEN Abort("put", review_id, body, 404, "")
       ELSE IF place_json.kind # "object" THEN Fault("put", review_id, body)
       ELSE Response("put", review_id, body, 200, "", <<>>)

review_put(review_id, body) ==
    LET out == review_put_checks(reviews, review_id, body)
    IN /\ last = NoRequest
       /\ IF out.status # 200
          THEN /\ last' = out
               /\ UNCHANGED <<reviews, mutated>>
          ELSE LET fetched_obj == review_put_merge(storage_get_Review(reviews, review_id),
                                                   body.data)
               IN /\ reviews' = storage_save(reviews, fetched_obj)
                  /\ last' = [out EXCEPT !.json = <<to_json(fetched_obj)>>]
                  /\ mutated' = mutated \cup {review_id}
       /\ UNCHANGED <<nextId, deleted, created, putReq, delReq>>

\* DELETE /reviews/<review_id>
review_delete_store_saveOnly(store, fetched_obj) == store

\* lines 136-137: storage.delete(fetched_obj); storage.save()
review_delete_store(store, fetched_obj) == storage_delete(store, fetched_obj)

review_delete_by_id(review_id) ==
    LET fetched_obj == storage_get_Review(reviews, review_id)
    IN /\ last = NoRequest
       /\ IF fetched_obj = None
          THEN /\ last' = Abort("delete", review_id, NoBody, 404, "")
               /\ UNCHANGED <<reviews, deleted, mutated>>
          ELSE /\ reviews' = review_delete_store(reviews, fetched_obj)
               /\ last' = Response("delete", review_id, NoBody, 200, "", <<EmptyObj>>)
               /\ deleted' = deleted \cup {review_id}
               /\ mutated' = mutated \cup {review_id}
       /\ UNCHANGED <<nextId, created, putReq, delReq>>

\* the response is sent; the next request can be taken
respond ==
    /\ last # NoRequest
    /\ last' = NoRequest
    /\ UNCHANGED <<reviews, nextId, deleted, created, mutated, putReq, delReq>>

Next ==
    \/ \E p \in PathPlaceIds : reviews_by_place(p)
    \/ \E p \in PathPlaceIds, b \in CreateBodies : review_create(p, b)
    \/ \E r \in PathReviewIds : review_by_id(r)
    \/ \E r \in PathReviewIds, b \in PutBodies : review_put(r, b)
    \/ \E r \in PathReviewIds : review_delete_by_id(r)
    \/ respond

Spec == Init /\ [][Next]_vars

\* ------------------------------------------- the interleaved specification
\* One PUT and one DELETE are in flight at a time, each handler split between
\* its storage.get and its write; POST stays one step.

\* lines 100-113: the request is parsed, the review read, the body merged
\* into the object the handler holds
put_read(review_id, body) ==
    LET out == review_put_checks(reviews, review_id, body)
    IN /\ putReq.pc \in {"idle", "done"}
       /\ putReq' = IF out.status # 200
                    THEN [pc |-> "done", id |-> review_id, obj |-> None,
                          status |-> out.status, stale |-> FALSE]
                    ELSE [pc |-> "read", id |-> review_id,
                          obj |-> review_put_merge(storage_get_Review(reviews, review_id),
                                                   body.data),
                          status |-> 0, stale |-> FALSE]
       /\ UNCHANGED <<reviews, nextId, last, deleted, created, mutated, delReq>>

put_save_result_recheck(store, fetched_obj) ==
    IF storage_get_Review(store, fetched_obj["id"]) = None
    THEN [status |-> 404, store |-> store]
    ELSE [status |-> 200, store |-> storage_save(store, fetched_obj)]

\* lines 115-117: the object is saved and returned, the store not consulted
put_save_result(store, fetched_obj) ==
    [status |-> 200, store |-> storage_save(store, fetched_obj)]

put_save ==
    /\ putReq.pc = "read"
    /\ LET out == put_save_result(reviews, putReq.obj)
       IN /\ reviews' = out.store
          /\ putReq' = [putReq EXCEPT !.pc = "done", !.obj = None, !.status = out.status]
          /\ mutated' = IF out.status = 200 THEN mutated \cup {putReq.id} ELSE mutated
    /\ UNCHANGED <<nextId, last, deleted, created, delReq>>

\* lines 131-134
del_read(review_id) ==
    LET fetched_obj == storage_get_Review(reviews, review_id)
    IN /\ delReq.pc \in {"idle", "done"}
       /\ delReq' = IF fetched_obj = None
                    THEN [pc |-> "done", id |-> review_id, obj |-> None,
                          status |-> 404, stale |-> FALSE]
                    ELSE [pc |-> "read", id |-> review_id, obj |-> fetched_obj,
                          status |-> 0, stale |-> FALSE]
       /\ UNCHANGED <<reviews, nextId, last, deleted, created, mutated, putReq>>

\* lines 136-139; a PUT that holds the review now holds a removed one
del_remove ==
    /\ delReq.pc = "read"
    /\ reviews' = review_delete_store(reviews, delReq.obj)
    /\ delReq' = [delReq EXCEPT !.pc = "done", !.obj = None, !.status = 200]
    /\ deleted' = deleted \cup {delReq.id}
    /\ mutated' = mutated \cup {delReq.id}
    /\ putReq' = IF putReq.pc = "read" /\ putReq.id = delReq.id
                 THEN [putReq EXCEPT !.stale = TRUE]
                 ELSE putReq
    /\ UNCHANGED <<nextId, last, created>>

ConcReviewIds == {ReviewId(n) : n \in 1..MaxConcReviews} \cup {"r0"}

\* POST, in one step; its response is not kept
conc_create(place_id, body) ==
    /\ review_create_store(place_id, body, MaxConcReviews)
    /\ UNCHANGED <<last, putReq, delReq>>

ConcNext ==
    \/ \E p \in PathPlaceIds, b \in CreateBodies : conc_create(p, b)
    \/ \E r \in ConcReviewIds, b \in PutBodies : put_read(r, b)
    \/ put_save
    \/ \E r \in ConcReviewIds : del_read(r)
    \/ del_remove

ConcSpec == Init /\ [][ConcNext]_vars

TypeOK ==
    /\ nextId \in 0..MaxReviews
    /\ DOMAIN reviews \subseteq {ReviewId(n) : n \in 1..nextId}

\* ------------------------------------------------------------------- claims
Has(obj, k, v) == k \in DOMAIN obj /\ obj[k] = v

\* C1: a PUT answered 200 leaves id, created_at, updated_at, user_id and
\* place_id of the review as they were and sets every other member of the
\* body on the review; and in every state each stored review still has the
\* id, user_id and place_id of its 201 response.
C1_UpdateKeepsProtectedKeys ==
    [][ /\ (last'.op = "put" /\ last'.status = 200) =>
              LET r == last'.arg
                  data == last'.body.data
              IN /\ r \in DOMAIN reviews /\ r \in DOMAIN reviews'
                 /\ \A k \in {"id", "created_at", "updated_at", "user_id", "place_id"} :
                       Has(reviews'[r], k, reviews[r][k])
                 /\ \A k \in DOMAIN data \ {"id", "created_at", "updated_at",
                                            "user_id", "place_id"} :
                       Has(reviews'[r], k, data[k])
                 /\ last'.json = <<to_json(reviews'[r])>>
        /\ \A r \in DOMAIN reviews' :
              /\ r \in DOMAIN created'
              /\ \A k \in {"id", "user_id", "place_id"} : Has(reviews'[r], k, created'[r][k])
              /\ reviews'[r]["id"] = r
      ]_vars

\* C1 witness: the documented body, with text, id and place_id, was applied
\* to a review of p1 whose text was "great"
C1_Witness ==
    /\ last.op = "put" /\ last.status = 200
    /\ DOMAIN last.body.data = {"text", "id", "place_id"}
    /\ Has(last.json[1], "text", "updated")
    /\ Has(last.json[1], "place_id", "p1")
    /\ Has(created[last.arg], "text", "great")

\* C2 (as stated): a POST for a place_id that matches no Place is answered
\* 404 whatever the body is, and adds no review.
C2_Original_AbsentPlaceAlways404 ==
    [][ (last'.op = "create" /\ last'.arg \notin PlaceIds) =>
           last'.status = 404 /\ reviews' = reviews
      ]_vars

\* C2 (amended): a POST for a place_id that matches no Place adds no review;
\* it is answered 404 when get_json yields a value (any JSON body other than
\* null, with or without user_id and text), and 400 when the body does not
\* parse or is null.
C2_AbsentPlace ==
    [][ (last'.op = "create" /\ last'.arg \notin PlaceIds) =>
           /\ reviews' = reviews
           /\ nextId' = nextId
           /\ IF last'.body.kind \in {"array", "object"}
              THEN last'.status = 404
              ELSE last'.status = 400 /\ last'.msg = "Not a JSON"
      ]_vars

\* C2 witness: a JSON object without user_id and text, sent to an absent
\* place, was answered 404
C2_Witness ==
    /\ last.op = "create" /\ last.arg \notin PlaceIds
    /\ last.body.kind = "object" /\ DOMAIN last.body.data = {}
    /\ last.status = 404

\* C3: a POST whose body does not parse as JSON is answered 400 'Not a JSON'
\* for every place_id, existing or not, and adds no review.
C3_NotJson400 ==
    [][ (last'.op = "create" /\ last'.body.kind = "invalid") =>
           /\ last'.status = 400 /\ last'.msg = "Not a JSON"
           /\ reviews' = reviews
           /\ nextId' = nextId
      ]_vars

\* C3 witness: an unparsable body sent to an absent place, with a review stored
C3_Witness ==
    /\ last.op = "create" /\ last.body.kind = "invalid" /\ last.arg \notin PlaceIds
    /\ last.status = 400
    /\ reviews # EmptyObj

\* C4 (as stated): a POST for an existing place whose JSON object has no
\* user_id is answered 400 'Missing user_id', never with an unhandled fault.
C4_MissingUserId400 ==
    (last.op = "create" /\ last.arg \in PlaceIds /\ last.body.kind = "object"
        /\ "user_id" \notin DOMAIN last.body.data) =>
        last.status = 400 /\ last.msg = "Missing user_id"

\* C5: a POST for an existing place with a JSON object whose user_id names a
\* User and which has text is answered 201; the store holds one review more,
\* the others unchanged, and the new one has the body's text and user_id, an
\* id no other stored review has, and the place_id of the path.
C5_CreateAddsOne ==
    [][ (last'.op = "create" /\ last'.arg \in PlaceIds /\ last'.body.kind = "object"
            /\ "text" \in DOMAIN last'.body.data
            /\ "user_id" \in DOMAIN last'.body.data
            /\ last'.body.data["user_id"] \in UserIds) =>
           /\ last'.status = 201
           /\ Cardinality(DOMAIN reviews') = Cardinality(DOMAIN reviews) + 1
           /\ \E id \in DOMAIN reviews' \ DOMAIN reviews :
                 /\ \A r \in DOMAIN reviews : reviews'[r] = reviews[r] /\ reviews[r]["id"] # id
                 /\ Has(reviews'[id], "id", id)
                 /\ Has(reviews'[id], "text", last'.body.data["text"])
                 /\ Has(reviews'[id], "user_id", last'.body.data["user_id"])
                 /\ Has(reviews'[id], "place_id", last'.arg)
                 /\ last'.json = <<to_json(reviews'[id])>>
      ]_vars

\* C5 witness: a second review was created, at p1, from a body that carried
\* place_id p2
C5_Witness ==
    /\ last.op = "create" /\ last.status = 201 /\ last.arg = "p1"
    /\ Has(last.body.data, "place_id", "p2")
    /\ Cardinality(DOMAIN reviews) = 2
    /\ Has(last.json[1], "place_id", "p1")

\* C6 (as stated): once a DELETE of r was answered 200, every later GET, PUT
\* and DELETE of r is answered 404.
C6_Original_DeletedAlways404 ==
    [][ \A r \in deleted :
           (last'.op \in {"get", "put", "delete"} /\ last'.arg = r) => last'.status = 404
      ]_vars

\* C6 (amended): once a DELETE of r was answered 200, every later GET and
\* DELETE of r is answered 404, every later PUT of r is answered 404 when
\* get_json yields a value and 400 when the body does not parse or is null,
\* and r appears in no list of reviews and is not in the store.
C6_DeletedStaysGone ==
    [][ \A r \in deleted :
           /\ (last'.op \in {"get", "delete"} /\ last'.arg = r) => last'.status = 404
           /\ (last'.op = "put" /\ last'.arg = r) =>
                 IF last'.body.kind \in {"invalid", "null"}
                 THEN last'.status = 400
                 ELSE last'.status = 404
           /\ (last'.op = "list" /\ last'.status = 200) =>
                 \A i \in 1..Len(last'.json) : last'.json[i]["id"] # r
           /\ r \notin DOMAIN reviews'
      ]_vars

\* C6 witness: a PUT with a JSON object on a deleted id was answered 404
\* while another review of the same place is stored
C6_Witness ==
    /\ last.op = "put" /\ last.arg \in deleted
    /\ last.body.kind = "object" /\ last.status = 404
    /\ \E r \in DOMAIN reviews : reviews[r]["place_id"] = created[last.arg]["place_id"]

\* C7: a GET of an id a POST returned, with no PUT or DELETE answered 200 for
\* that id since, is answered 200 with the JSON of the 201 response.
C7_RoundTrip ==
    (last.op = "get" /\ last.arg \in DOMAIN created /\ last.arg \notin mutated) =>
        last.status = 200 /\ last.json = <<created[last.arg]>>

\* C7 witness: the first review is fetched after a second was created and
\* then updated
C7_Witness ==
    /\ last.op = "get" /\ last.status = 200 /\ last.arg = "r1"
    /\ "r1" \notin mutated /\ "r2" \in mutated

\* the JSON of the stored reviews of a place
StoredOf(store, p) ==
    { to_json(store[r]) : r \in { x \in DOMAIN store : Has(store[x], "place_id", p) } }

\* C8: a list request changes nothing in the store; it is answered 404 when
\* no Place has the id, and otherwise 200 with exactly the stored reviews
\* whose place_id is that place, each once.
C8_ListExact ==
    [][ last'.op = "list" =>
           /\ reviews' = reviews
           /\ nextId' = nextId
           /\ IF last'.arg \notin PlaceIds
              THEN last'.status = 404
              ELSE /\ last'.status = 200
                   /\ { last'.json[i] : i \in 1..Len(last'.json) } = StoredOf(reviews, last'.arg)
                   /\ Len(last'.json) = Cardinality(StoredOf(reviews, last'.arg))
      ]_vars

\* C8 witness: a place lists its one review while the store holds another
\* place's review, after an update and a delete
C8_Witness ==
    /\ last.op = "list" /\ last.status = 200 /\ Len(last.json) = 1
    /\ Cardinality(DOMAIN reviews) = 2
    /\ mutated # {}

\* C9: every stored review has a text attribute, a user_id that names a
\* User and a place_id that names a Place.
C9_StoredReviewsWellFormed ==
    \A r \in DOMAIN reviews :
        /\ "text" \in DOMAIN reviews[r]
        /\ "user_id" \in DOMAIN reviews[r] /\ reviews[r]["user_id"] \in UserIds
        /\ "place_id" \in DOMAIN reviews[r] /\ reviews[r]["place_id"] \in PlaceIds

\* C9 witness: a review whose text an update replaced is stored after
\* another review was deleted
C9_Witness ==
    /\ deleted # {}
    /\ \E r \in DOMAIN reviews : Has(reviews[r], "text", "updated")

\* C10: nothing stands between a handler's storage.get and its write: a PUT
\* that has read the review saves it and is answered 200 whatever happened
\* to the review since, also when a DELETE of the same id removed it and was
\* answered 200 in between.
C10_PutAfterDeleteSucceeds ==
    [][ (putReq.pc = "read" /\ putReq'.pc = "done") =>
           /\ putReq'.status = 200
           /\ putReq.stale =>
                 /\ putReq.id \in deleted
                 /\ putReq.id \notin DOMAIN reviews
                 /\ putReq.id \in DOMAIN reviews'
      ]_vars

\* C10 witness: the PUT of a review was answered 200 after the DELETE of the
\* same id, begun after the PUT had read the review, was answered 200
C10_Witness ==
    /\ putReq.pc = "done" /\ putReq.status = 200 /\ putReq.stale
    /\ delReq.pc = "done" /\ delReq.status = 200 /\ delReq.id = putReq.id
====
